---- MODULE Spec2Model ----
(***************************************************************************)
(* Model of ari.client.Client (src/ari/client.py): the listener registry   *)
(* (on_event / EventUnsubscriber.close / on_object_event), the drain loop  *)
(* (__run / run) of each WebSocket and Client.close(); the registry calls  *)
(* also statement by statement, as threads without a lock interleave them. *)
(***************************************************************************)
EXTENDS Integers, Sequences, FiniteSets, TLC

\* ------------------------------------------------------------------ bounds
\* Total number of successful registrations (on_event calls) in a run.
MaxRegs == 4
\* The same, in the runs where a connection is drained as well.
MaxDispatchRegs == 3
\* The same, in the runs where listeners are registered by on_object_event.
MaxObjectRegs == 2
\* The same, in the runs with several connections and Client.close().
MaxConnRegs == 1
\* Total number of frames the transport delivers, over all connections.
MaxFrames == 2
\* Number of registrations made before the concurrent registry calls begin.
MaxRaceRegs == 2
\* Total number of registrations in the runs with two event types and
\* connections that open and end.
MaxLocalRegs == 3

\* ------------------------------------------------------------- input sets
\* WebSocket connections, one per call of run().
Conns == {"ws1", "ws2"}
\* Event types the application registers for and the server sends.
EventTypes == {"StasisStart", "Dial"}
\* An event type the service's event schema has no model for.
UnknownType == "Custom"
\* User callbacks, compared by identity.
Callbacks == {"f", "g", "h"}
\* The (args, kwargs) pair given to on_event, compared by value.
Extras == {"x", "y"}
\* model_id values of the on_<domain>_event helpers.
ModelIds == {"Channel", "Bridge"}
\* What a frame holds under a field name: nothing, JSON null, an empty
\* object (falsy in Python) or a raw sub-record.
FieldVals == {"absent", "null", "empty", "raw"}

\* The models of the events resource when the service publishes it:
\* event type -> (field name -> declared type).  `properties` of each model.
PublishedModels ==
    [t \in EventTypes |->
        IF t = "StasisStart"
        THEN [fld \in {"channel"} |-> "Channel"]
        ELSE [fld \in {"caller", "peer"} |-> "Channel"]]

\* The empty dict `{}` of Client.__init__ / the empty mapping.
EmptyMap == [x \in {} |-> x]

\* ------------------------------------------------------------------ state
VARIABLES
    event_models,     \* self.event_models: event type -> properties
    event_listeners,  \* self.event_listeners: event type -> list of entries
    websockets,       \* self.websockets: set of open connections
    handles,          \* EventUnsubscriber objects returned so far
    last,             \* the last registry call: its kind, result and the
                      \* registry before it
    pc,               \* position of run(apps) for each connection
    msg,              \* msg_json of the frame being dispatched
    listeners,        \* the local `listeners` of __run (the copy)
    idx,              \* position of `for listener in listeners`
    call,             \* what the user callback in progress received
    invoked,          \* entries invoked so far for the current frame
    raised,           \* positions whose listener raised an Exception
                      \* during the current frame
    handled,          \* positions for which exception_handler was called
                      \* during the current frame
    exc,              \* exception leaving __run, "none" if none
    closeReq,         \* ws.send_close() was called on the connection
    closeCount,       \* number of ws.close() calls on the connection
    frames,           \* number of frames delivered so far
    closePc,          \* position of Client.close()
    closeIter,        \* iterator of `for ws in self.websockets`
    closed,           \* handles on which close() was called at least once
    tasks             \* registry calls in progress in concurrent tasks:
                      \* the position and the locals of each

vars == <<event_models, event_listeners, websockets, handles, last,
          pc, msg, listeners, idx, call, invoked, raised, handled, exc,
          closeReq, closeCount, frames, closePc, closeIter, closed, tasks>>

regVars == <<event_listeners, handles, last, closed, tasks>>
runVars == <<pc, msg, listeners, idx, call, invoked, raised, handled, exc,
             closeCount, frames>>
closeVars == <<closePc, closeIter>>

\* --------------------------------------------------------------- registry
\* dict.get(key, default)
Get(d, k, default) == IF k \in DOMAIN d THEN d[k] ELSE default

\* A callback object.  kind "plain": the user's function itself; kind
\* "extract": an extract_objects closure (uid: its identity).
PlainCb(c) ==
    [kind |-> "plain", user |-> c, uid |-> 0, model |-> "-", fields |-> {}]

\* The closure extract_objects that on_object_event creates: a new function
\* object (uid) on every call, closing over event_cb, factory_fn and
\* obj_fields.
ExtractCb(c, model_id, obj_fields, uid) ==
    [kind |-> "extract", user |-> c, uid |-> uid, model |-> model_id,
     fields |-> obj_fields]

\* Python `==` on callbacks: functions and closures compare by identity.
CbEq(a, b) == a = b

\* Python `==` on the tuples (event_cb, args, kwargs): elementwise, whatever
\* the identity (field id) of the tuple object is.
EntryEq(a, b) == CbEq(a.cb, b.cb) /\ a.extra = b.extra

\* Index of the first element of list l equal (==) to e, 0 if none.
IndexOf(l, e) ==
    IF \E i \in 1..Len(l) : EntryEq(l[i], e)
    THEN CHOOSE i \in 1..Len(l) :
            EntryEq(l[i], e) /\ \A j \in 1..(i - 1) : ~EntryEq(l[j], e)
    ELSE 0

\* `e in l`
Contains(l, e) == IndexOf(l, e) # 0

\* list without its element at position i
DropAt(l, i) == SubSeq(l, 1, i - 1) \o SubSeq(l, i + 1, Len(l))

\* l.remove(e): drops the first element equal to e
ListRemove(l, e) == DropAt(l, IndexOf(l, e))

\* `for cb in listeners: if event_cb == cb[0]: listeners.remove(cb)`, from
\* position i of the list iterator on; the iterator moves on by one after a
\* removal as after any other element.
RECURSIVE RemoveLoop(_, _, _)
RemoveLoop(l, c, i) ==
    IF i > Len(l) THEN l
    ELSE IF CbEq(c, l[i].cb) THEN RemoveLoop(ListRemove(l, l[i]), c, i + 1)
    ELSE RemoveLoop(l, c, i + 1)

\* on_event without its removal loop: the tuple is appended, whatever the
\* list holds.
RegisteredNoRemove(l, obj) == Append(l, obj)

\* The list of event_type after on_event(event_type, c, *args, **kwargs)
\* created the tuple `obj`.
Registered(l, obj) == Append(RemoveLoop(l, obj.cb, 1), obj)

\* close() that removes nothing.
UnsubscribedNothing(l, obj) == l

\* The list after EventUnsubscriber.close() of the handle holding obj.
Unsubscribed(l, obj) == IF Contains(l, obj) THEN ListRemove(l, obj) ELSE l

\* Identity of a new tuple (event_cb, args, kwargs): tuples that compare
\* equal are told apart by the number of equal tuples created before them.
NewId(t, cb, extra) ==
    1 + Cardinality({h \in handles : /\ h.type = t
                                     /\ h.obj.cb = cb
                                     /\ h.obj.extra = extra})

\* One extractor object per (type, callback, model), shared by the calls.
NewUidShared(t, c, model_id) == 1

\* Identity of a new extract_objects closure, likewise.
NewUid(t, c, model_id) ==
    1 + Cardinality({h \in handles : /\ h.type = t
                                     /\ h.obj.cb.kind = "extract"
                                     /\ h.obj.cb.user = c
                                     /\ h.obj.cb.model = model_id})

\* A registry that keeps the list of the type alone.
WithListOnly(reg, t, l) == [k \in {t} |-> l]

\* The dict after the list of type t (created by setdefault if the dict had
\* none) has become l: the lists of the other types are the same objects,
\* untouched.
WithList(reg, t, l) ==
    [k \in DOMAIN reg \cup {t} |-> IF k = t THEN l ELSE reg[k]]

NoHandle == [type |-> "-", obj |-> [cb |-> PlainCb("-"), extra |-> "-", id |-> 0]]
\* The last registry call: op, its event type and model_id, the handle it
\* returned or was made on, the error it raised, the registry before it;
\* for on_event, whether the callback was registered for the type already
\* (dup) and the length of the type's list before (n0); for close(),
\* whether the call before it was the on_event that returned the handle
\* (rt), with dup and n0 of that on_event, and whether close() had been
\* called on the handle before (again).
NoLast == [op |-> "none", type |-> "-", model |-> "-", h |-> NoHandle,
           err |-> "none", pre |-> EmptyMap, rt |-> FALSE, dup |-> FALSE,
           n0 |-> 0, again |-> FALSE]

\* on_event(t, cb, *args, **kwargs) with callback object cb
DoOnEvent(t, cb, extra, via, model_id) ==
    LET obj == [cb |-> cb, extra |-> extra, id |-> NewId(t, cb, extra)]
        old == Get(event_listeners, t, <<>>)
    IN  /\ event_listeners' =
              WithList(event_listeners, t, Registered(old, obj))
        /\ handles' = handles \cup {[type |-> t, obj |-> obj]}
        /\ last' = [op |-> via, type |-> t, model |-> model_id,
                    h |-> [type |-> t, obj |-> obj], err |-> "none",
                    pre |-> event_listeners, rt |-> FALSE,
                    dup |-> \E i \in 1..Len(old) : CbEq(old[i].cb, cb),
                    n0 |-> Len(old), again |-> FALSE]
        /\ UNCHANGED <<closed, tasks>>

OnEvent(t, c, extra) ==
    /\ Cardinality(handles) < MaxRegs
    /\ DoOnEvent(t, PlainCb(c), extra, "on_event", "-")
    /\ UNCHANGED <<event_models, websockets, closeReq>>
    /\ UNCHANGED runVars
    /\ UNCHANGED closeVars

\* EventUnsubscriber.close()
Unsubscribe(h) ==
    /\ event_listeners' =
          WithList(event_listeners, h.type,
                   Unsubscribed(event_listeners[h.type], h.obj))
    /\ last' = [op |-> "close", type |-> h.type, model |-> "-", h |-> h,
                err |-> "none", pre |-> event_listeners,
                rt |-> (last.op \in {"on_event", "on_object_event"}
                        /\ last.err = "none" /\ last.h = h),
                dup |-> last.dup, n0 |-> last.n0, again |-> h \in closed]
    /\ closed' = closed \cup {h}
    /\ UNCHANGED <<handles, tasks>>
    /\ UNCHANGED <<event_models, websockets, closeReq>>
    /\ UNCHANGED runVars
    /\ UNCHANGED closeVars

\* `[k for (k, v) in event_model['properties'].items() if v['type'] == model_id]`
ObjFields(event_model, model_id) ==
    {k \in DOMAIN event_model : event_model[k] = model_id}

\* on_object_event without its check of obj_fields.
SchemaErrorModelOnly(models, t, model_id) ==
    IF Get(models, t, EmptyMap) = EmptyMap THEN "UnknownEventModel" ELSE "none"

\* The check on_object_event makes before it registers anything: the error
\* it raises, "none" if it goes on to on_event.
SchemaError(models, t, model_id) ==
    IF Get(models, t, EmptyMap) = EmptyMap THEN "UnknownEventModel"
    ELSE IF ObjFields(models[t], model_id) = {} THEN "NoFieldsOfType"
    ELSE "none"

\* on_object_event(t, c, factory_fn, model_id, *args, **kwargs); the helpers
\* on_channel_event, on_bridge_event, ... are this call with their model_id.
OnObjectEvent(t, c, model_id, extra) ==
    LET err == SchemaError(event_models, t, model_id)
    IN  /\ IF err # "none"
           THEN /\ last' = [op |-> "on_object_event", type |-> t,
                            model |-> model_id, h |-> NoHandle, err |-> err,
                            pre |-> event_listeners, rt |-> FALSE,
                            dup |-> FALSE, n0 |-> 0, again |-> FALSE]
                /\ UNCHANGED <<event_listeners, handles, closed, tasks>>
           ELSE /\ Cardinality(handles) < MaxRegs
                /\ DoOnEvent(t, ExtractCb(c, model_id,
                                 ObjFields(event_models[t], model_id),
                                 NewUid(t, c, model_id)),
                             extra, "on_object_event", model_id)
        /\ UNCHANGED <<event_models, websockets, closeReq>>
        /\ UNCHANGED runVars
        /\ UNCHANGED closeVars

\* ------------------------------------ registry calls, statement by statement
\* on_event and EventUnsubscriber.close() hold no lock: when they are called
\* from several threads, another thread's statements can run between any
\* two statements of a call.  The actions below are the statements of one
\* call each; OnEvent and Unsubscribe above are the calls run without
\* interruption.

\* Tasks (threads) that call the registry while another call is in progress.
Tasks == {"t1", "t2"}

\* A task that is in no registry call.  Its locals in a call: event_type,
\* event_cb, (args, kwargs), the position of the list iterator, the loop
\* variable cb, the handle (the one it closes, or the one it returns), the
\* exception that ended the call.
NoTask == [op |-> "none", pc |-> "idle", type |-> "-", cb |-> PlainCb("-"),
           extra |-> "-", i |-> 0, cur |-> NoHandle.obj, h |-> NoHandle,
           err |-> "none"]

\* `listeners = self.event_listeners.setdefault(event_type, list())` and the
\* creation of the iterator of `for cb in listeners`.
TaskOnEvent(k, t, c, extra) ==
    /\ tasks[k].pc = "idle"
    /\ event_listeners' =
          [key \in DOMAIN event_listeners \cup {t} |->
              Get(event_listeners, key, <<>>)]
    /\ tasks' = [tasks EXCEPT ![k] =
                    [NoTask EXCEPT !.op = "on_event", !.pc = "for",
                                   !.type = t, !.cb = PlainCb(c),
                                   !.extra = extra, !.i = 1]]
    /\ UNCHANGED <<handles, last, closed>>
    /\ UNCHANGED <<event_models, websockets, closeReq>>
    /\ UNCHANGED runVars
    /\ UNCHANGED closeVars

\* `for cb in listeners: if event_cb == cb[0]`: the iterator yields the
\* element at its position in the list as it now is, or is exhausted.
TaskForNext(k) ==
    /\ tasks[k].pc = "for"
    /\ LET l == event_listeners[tasks[k].type]
           i == tasks[k].i
       IN  tasks' = [tasks EXCEPT ![k] =
                        IF i > Len(l) THEN [@ EXCEPT !.pc = "append"]
                        ELSE [@ EXCEPT !.i = i + 1, !.cur = l[i],
                                       !.pc = IF CbEq(tasks[k].cb, l[i].cb)
                                              THEN "remove" ELSE "for"]]
    /\ UNCHANGED <<event_listeners, handles, last, closed>>
    /\ UNCHANGED <<event_models, websockets, closeReq>>
    /\ UNCHANGED runVars
    /\ UNCHANGED closeVars

\* `listeners.remove(cb)`: list.remove raises ValueError when the list holds
\* no element equal to cb.
TaskRemove(k) ==
    /\ tasks[k].pc = "remove"
    /\ LET l == event_listeners[tasks[k].type]
       IN  IF Contains(l, tasks[k].cur)
           THEN /\ event_listeners' =
                      [event_listeners EXCEPT ![tasks[k].type] =
                          ListRemove(l, tasks[k].cur)]
                /\ tasks' = [tasks EXCEPT ![k].pc = "for"]
           ELSE /\ tasks' = [tasks EXCEPT ![k].pc = "raised",
                                          ![k].err = "ValueError"]
                /\ UNCHANGED event_listeners
    /\ UNCHANGED <<handles, last, closed>>
    /\ UNCHANGED <<event_models, websockets, closeReq>>
    /\ UNCHANGED runVars
    /\ UNCHANGED closeVars

\* `callback_obj = (event_cb, args, kwargs); listeners.append(callback_obj)`
\* and the return of the handle.
TaskAppend(k) ==
    /\ tasks[k].pc = "append"
    /\ LET t == tasks[k].type
           obj == [cb |-> tasks[k].cb, extra |-> tasks[k].extra,
                   id |-> NewId(t, tasks[k].cb, tasks[k].extra)]
       IN  /\ event_listeners' =
                 [event_listeners EXCEPT ![t] = Append(@, obj)]
           /\ handles' = handles \cup {[type |-> t, obj |-> obj]}
           /\ tasks' = [tasks EXCEPT ![k].pc = "done",
                                     ![k].h = [type |-> t, obj |-> obj]]
    /\ UNCHANGED <<last, closed>>
    /\ UNCHANGED <<event_models, websockets, closeReq>>
    /\ UNCHANGED runVars
    /\ UNCHANGED closeVars

\* EventUnsubscriber.close(), its test:
\* `if callback_obj in client.event_listeners[event_type]`.
TaskClose(k, h) ==
    /\ tasks[k].pc = "idle"
    /\ tasks' = [tasks EXCEPT ![k] =
                    [NoTask EXCEPT !.op = "close", !.type = h.type, !.h = h,
                                   !.pc = IF Contains(event_listeners[h.type],
                                                      h.obj)
                                          THEN "closing" ELSE "done"]]
    /\ closed' = closed \cup {h}
    /\ UNCHANGED <<event_listeners, handles, last>>
    /\ UNCHANGED <<event_models, websockets, closeReq>>
    /\ UNCHANGED runVars
    /\ UNCHANGED closeVars

\* EventUnsubscriber.close(), its update:
\* `client.event_listeners[event_type].remove(callback_obj)`.
TaskCloseRemove(k) ==
    /\ tasks[k].pc = "closing"
    /\ LET l == event_listeners[tasks[k].type]
       IN  IF Contains(l, tasks[k].h.obj)
           THEN /\ event_listeners' =
                      [event_listeners EXCEPT ![tasks[k].type] =
                          ListRemove(l, tasks[k].h.obj)]
                /\ tasks' = [tasks EXCEPT ![k].pc = "done"]
           ELSE /\ tasks' = [tasks EXCEPT ![k].pc = "raised",
                                          ![k].err = "ValueError"]
                /\ UNCHANGED event_listeners
    /\ UNCHANGED <<handles, last, closed>>
    /\ UNCHANGED <<event_models, websockets, closeReq>>
    /\ UNCHANGED runVars
    /\ UNCHANGED closeVars

\* ------------------------------------------------------------ drain loop
\* Field names a frame of type t may carry (the server's own schema).
FrameFields(t) == IF t = "StasisStart" THEN {"channel"} ELSE {"caller", "peer"}

\* Frames ws.recv() can return: text that json.loads rejects, a JSON array,
\* an object without 'type', or an event record.
MalformedKinds == {"nonjson", "array", "notype"}
MalformedFrames ==
    {[kind |-> k, type |-> "-", fields |-> EmptyMap] : k \in MalformedKinds}
EventFrames ==
    UNION {{[kind |-> "event", type |-> t, fields |-> fv] :
               fv \in [FrameFields(t) -> FieldVals]} : t \in EventTypes}
Frames == MalformedFrames \cup EventFrames

\* No frame received yet / the sentinel None of iter(ws.recv, None).
NoMsg == [kind |-> "nomsg", type |-> "-", fields |-> EmptyMap]
EosMsg == [kind |-> "eos", type |-> "-", fields |-> EmptyMap]

\* factory_fn(self, raw): the domain object built from a raw sub-record.
NoObj == [model |-> "-", raw |-> "-"]
Factory(model_id, raw) == [model |-> model_id, raw |-> raw]

\* Truth value of event.get(obj_field): None (absent or null) and an empty
\* object are falsy.
Truthy(v) == v = "raw"

\* What extract_objects passes to event_cb as its first argument.
NoneResult == [kind |-> "none", one |-> NoObj, map |-> EmptyMap]
ObjectResult(o) == [kind |-> "object", one |-> o, map |-> EmptyMap]
MappingResult(m) == [kind |-> "mapping", one |-> NoObj, map |-> m]
NotExtracted == [kind |-> "n/a", one |-> NoObj, map |-> EmptyMap]

\* extract_objects collapsing on the number of fields the record holds
\* instead of the number of fields the schema declares.
ExtractObjectsByRecord(cb, event) ==
    LET present == {fld \in cb.fields :
                       Truthy(Get(event.fields, fld, "absent"))}
        obj == [fld \in present |-> Factory(cb.model, event.fields[fld])]
    IN  IF Cardinality(present) = 1
        THEN ObjectResult(obj[CHOOSE fld \in present : TRUE])
        ELSE IF present = {} THEN NoneResult
        ELSE MappingResult(obj)

\* extract_objects: the dict of built objects, collapsed when the schema has
\* one field of the type.
ExtractObjects(cb, event) ==
    LET present == {fld \in cb.fields :
                       Truthy(Get(event.fields, fld, "absent"))}
        obj == [fld \in present |-> Factory(cb.model, event.fields[fld])]
    IN  IF Cardinality(cb.fields) = 1
        THEN IF present # {}
             THEN ObjectResult(obj[CHOOSE fld \in present : TRUE])
             ELSE NoneResult
        ELSE MappingResult(obj)

\* A call that passes the record alone: callback(msg_json).
DeliverWithoutExtra(entry, event) ==
    [user |-> entry.cb.user,
     obj |-> NotExtracted,
     event |-> event,
     extra |-> "-"]

\* callback(msg_json, *args, **kwargs): what the user's function receives.
NoCall == [user |-> "-", obj |-> NotExtracted, event |-> NoMsg, extra |-> "-"]
Deliver(entry, event) ==
    [user |-> entry.cb.user,
     obj |-> IF entry.cb.kind = "extract"
             THEN ExtractObjects(entry.cb, event) ELSE NotExtracted,
     event |-> event,
     extra |-> entry.extra]

\* A lookup that falls back, for a type without listeners, on the listeners
\* of the other types.
SnapshotOrOthers(reg, t) ==
    IF Get(reg, t, <<>>) # <<>> THEN reg[t]
    ELSE IF \E k \in DOMAIN reg : reg[k] # <<>>
         THEN reg[CHOOSE k \in DOMAIN reg : reg[k] # <<>>]
         ELSE <<>>

\* `list(self.event_listeners.get(msg_json['type'], []))`
Snapshot(reg, t) == Get(reg, t, <<>>)

\* Going through the registry's own list instead of a copy of it.
IterListLive(copy, live) == live

\* The list `for listener in listeners` goes through: the copy, not the
\* registry's list.
IterList(copy, live) == copy

\* run(apps): open the WebSocket and add it to the active set.
RunStart(w) ==
    /\ pc[w] = "idle"
    /\ websockets' = websockets \cup {w}
    /\ pc' = [pc EXCEPT ![w] = "recv"]
    /\ UNCHANGED <<msg, listeners, idx, call, invoked, raised, handled, exc,
                   closeCount, frames>>
    /\ UNCHANGED <<event_models, closeReq>>
    /\ UNCHANGED regVars
    /\ UNCHANGED closeVars

\* Where __run goes after json.loads and the shape check of a frame:
\* json.loads raises on text that is no JSON.
AfterDecode(kind) ==
    IF kind = "nonjson" THEN "finally"
    ELSE IF kind \in {"array", "notype"} THEN "recv"
    ELSE "loop"

\* ws.recv() returns a frame: decode, check, take the copy of the listeners.
RecvFrame(w, f) ==
    /\ pc[w] = "recv"
    /\ ~closeReq[w]
    /\ frames < MaxFrames
    /\ frames' = frames + 1
    /\ msg' = [msg EXCEPT ![w] = f]
    /\ pc' = [pc EXCEPT ![w] = AfterDecode(f.kind)]
    /\ exc' = [exc EXCEPT ![w] =
                  IF AfterDecode(f.kind) = "finally"
                  THEN "JSONDecodeError" ELSE @]
    /\ listeners' = [listeners EXCEPT ![w] =
                        IF AfterDecode(f.kind) = "loop"
                        THEN Snapshot(event_listeners, f.type) ELSE <<>>]
    /\ idx' = [idx EXCEPT ![w] = 1]
    /\ invoked' = [invoked EXCEPT ![w] = <<>>]
    /\ raised' = [raised EXCEPT ![w] = <<>>]
    /\ handled' = [handled EXCEPT ![w] = <<>>]
    /\ UNCHANGED <<call, closeCount>>
    /\ UNCHANGED <<event_models, websockets, closeReq>>
    /\ UNCHANGED regVars
    /\ UNCHANGED closeVars

\* ws.recv() returns None: the server ended the stream, or send_close() was
\* called on the connection.
RecvEOS(w) ==
    /\ pc[w] = "recv"
    /\ msg' = [msg EXCEPT ![w] = EosMsg]
    /\ pc' = [pc EXCEPT ![w] = "finally"]
    /\ UNCHANGED <<listeners, idx, call, invoked, raised, handled, exc,
                   closeCount, frames>>
    /\ UNCHANGED <<event_models, websockets, closeReq>>
    /\ UNCHANGED regVars
    /\ UNCHANGED closeVars

\* A callback started without waiting for its return: the loop goes on
\* while the callback runs.
InCallDetached == "loop"

\* `callback(msg_json, *args, **kwargs)` is a plain call: the loop is in the
\* call until the callback returns or raises.
InCall == "incall"

\* `for listener in listeners`: call the next listener, or go back to recv.
LoopNext(w) ==
    /\ pc[w] = "loop"
    /\ LET it == IterList(listeners[w], Snapshot(event_listeners, msg[w].type))
       IN  IF idx[w] <= Len(it)
           THEN /\ invoked' = [invoked EXCEPT ![w] = Append(@, it[idx[w]])]
                /\ call' = [call EXCEPT ![w] = Deliver(it[idx[w]], msg[w])]
                /\ pc' = [pc EXCEPT ![w] = InCall]
           ELSE /\ pc' = [pc EXCEPT ![w] = "recv"]
                /\ UNCHANGED <<invoked, call>>
    /\ UNCHANGED <<msg, listeners, idx, raised, handled, exc, closeCount,
                   frames>>
    /\ UNCHANGED <<event_models, websockets, closeReq>>
    /\ UNCHANGED regVars
    /\ UNCHANGED closeVars

\* How a listener call can end: it returns; it raises an Exception and the
\* exception handler returns; it raises an Exception and the exception
\* handler raises; it raises a BaseException that is no Exception.
Outcomes == {"ok", "raise", "handler_raise", "fatal"}

\* One try around the whole for loop: a listener's Exception is handled,
\* and the rest of the listeners is skipped.
AfterCallBreak(o) ==
    IF o = "ok" THEN "loop" ELSE IF o = "raise" THEN "recv" ELSE "finally"

\* The call of the exception handler in a try of its own: an exception of
\* the handler is dropped and the loop goes on.
AfterCallHandlerContained(o) == IF o = "fatal" THEN "finally" ELSE "loop"

\* `except Exception as e: self.exception_handler(e)`: where the loop goes
\* after a listener call that ended with outcome o.
AfterCall(o) ==
    IF o \in {"ok", "raise"} THEN "loop" ELSE "finally"

\* Number of exception_handler calls made for a listener call that ended
\* with outcome o.
HandlerCalls(o) == IF o \in {"raise", "handler_raise"} THEN 1 ELSE 0

\* The listener call of position idx ends.
InvokeReturn(w, o) ==
    /\ pc[w] = "incall"
    /\ pc' = [pc EXCEPT ![w] = AfterCall(o)]
    /\ idx' = [idx EXCEPT ![w] = IF AfterCall(o) = "loop" THEN @ + 1 ELSE @]
    /\ raised' = [raised EXCEPT ![w] =
                     IF o \in {"raise", "handler_raise"}
                     THEN Append(@, idx[w]) ELSE @]
    /\ handled' = [handled EXCEPT ![w] =
                      @ \o [n \in 1..HandlerCalls(o) |-> idx[w]]]
    /\ exc' = [exc EXCEPT ![w] =
                  IF o = "handler_raise" THEN "HandlerError"
                  ELSE IF o = "fatal" THEN "BaseException" ELSE @]
    /\ call' = [call EXCEPT ![w] = NoCall]
    /\ UNCHANGED <<msg, listeners, invoked, closeCount, frames>>
    /\ UNCHANGED <<event_models, websockets, closeReq>>
    /\ UNCHANGED regVars
    /\ UNCHANGED closeVars

\* The cleanup written after the call of __run, without try/finally.
CleanupOnReturn(e) == e = "none"

\* `try: self.__run(ws) finally: ...`: the cleanup runs whatever exception e
\* ("none": none) ended __run.
CleanupRuns(e) == TRUE

\* `ws.close(); self.websockets.remove(ws)`, then run() returns or raises.
Finally(w) ==
    /\ pc[w] = "finally"
    /\ IF CleanupRuns(exc[w])
       THEN /\ closeCount' = [closeCount EXCEPT ![w] = @ + 1]
            /\ websockets' = websockets \ {w}
       ELSE UNCHANGED <<closeCount, websockets>>
    /\ pc' = [pc EXCEPT ![w] = IF exc[w] = "none" THEN "returned" ELSE "raised"]
    /\ UNCHANGED <<msg, listeners, idx, call, invoked, raised, handled, exc,
                   frames>>
    /\ UNCHANGED <<event_models, closeReq>>
    /\ UNCHANGED regVars
    /\ UNCHANGED closeVars

\* ------------------------------------------------------- Client.close()
NoIter == [used |-> 0, seen |-> {}, start |-> {}]

\* `for ws in self.websockets`: the set iterator is created.
CloseStart ==
    /\ closePc = "idle"
    /\ closePc' = "iter"
    /\ closeIter' = [used |-> Cardinality(websockets), seen |-> {},
                     start |-> websockets]
    /\ UNCHANGED <<event_models, websockets, closeReq>>
    /\ UNCHANGED regVars
    /\ UNCHANGED runVars

\* One step of the loop of close(): the set iterator raises RuntimeError
\* when the set's size is not what it was when the loop began; else it
\* yields an element not yet seen, to which send_close() is sent, or it is
\* exhausted and swagger.close() ends the call.
CloseNext ==
    /\ closePc = "iter"
    /\ IF Cardinality(websockets) # closeIter.used
       THEN /\ closePc' = "raised"
            /\ UNCHANGED <<closeIter, closeReq>>
       ELSE \/ \E w \in websockets \ closeIter.seen :
                 /\ closeReq' = [closeReq EXCEPT ![w] = TRUE]
                 /\ closeIter' = [closeIter EXCEPT !.seen = @ \cup {w}]
                 /\ UNCHANGED closePc
            \/ /\ \/ websockets \ closeIter.seen = {}
                   \/ websockets # closeIter.start
               /\ closePc' = "done"
               /\ UNCHANGED <<closeIter, closeReq>>
    /\ UNCHANGED <<event_models, websockets>>
    /\ UNCHANGED regVars
    /\ UNCHANGED runVars

\* ------------------------------------------------------- specification
\* Client.__init__: the models of the events resource, or {} when the
\* service publishes none; no connection, no listener.
InitWith(models) ==
    /\ event_models = models
    /\ event_listeners = EmptyMap
    /\ websockets = {}
    /\ handles = {}
    /\ last = NoLast
    /\ pc = [w \in Conns |-> "idle"]
    /\ msg = [w \in Conns |-> NoMsg]
    /\ listeners = [w \in Conns |-> <<>>]
    /\ idx = [w \in Conns |-> 1]
    /\ call = [w \in Conns |-> NoCall]
    /\ invoked = [w \in Conns |-> <<>>]
    /\ raised = [w \in Conns |-> <<>>]
    /\ handled = [w \in Conns |-> <<>>]
    /\ exc = [w \in Conns |-> "none"]
    /\ closeReq = [w \in Conns |-> FALSE]
    /\ closeCount = [w \in Conns |-> 0]
    /\ frames = 0
    /\ closePc = "idle"
    /\ closeIter = NoIter
    /\ closed = {}
    /\ tasks = [k \in Tasks |-> NoTask]

Init == \E models \in {PublishedModels, EmptyMap} : InitWith(models)

Next ==
    \/ \E t \in EventTypes, c \in Callbacks, x \in Extras : OnEvent(t, c, x)
    \/ \E t \in EventTypes \cup {UnknownType}, c \in Callbacks,
          m \in ModelIds, x \in Extras : OnObjectEvent(t, c, m, x)
    \/ \E h \in handles : Unsubscribe(h)
    \/ \E w \in Conns : RunStart(w)
    \/ \E w \in Conns, f \in Frames : RecvFrame(w, f)
    \/ \E w \in Conns : RecvEOS(w)
    \/ \E w \in Conns : LoopNext(w)
    \/ \E w \in Conns, o \in Outcomes : InvokeReturn(w, o)
    \/ \E w \in Conns : Finally(w)
    \/ CloseStart
    \/ CloseNext
    \/ \E k \in Tasks, t \in EventTypes, c \in Callbacks, x \in Extras :
          TaskOnEvent(k, t, c, x)
    \/ \E k \in Tasks, h \in handles : TaskClose(k, h)
    \/ \E k \in Tasks : TaskForNext(k)
    \/ \E k \in Tasks : TaskRemove(k)
    \/ \E k \in Tasks : TaskAppend(k)
    \/ \E k \in Tasks : TaskCloseRemove(k)

Spec == Init /\ [][Next]_vars

\* ------------------------------------------------------------ scenarios
\* Each specification below is Spec with fewer callers: the same actions,
\* taken with the inputs of one kind of run, so that its states can be
\* explored exhaustively.

\* on_event calls (type, callback, extra arguments) of the registry runs.
RegInputs ==
    {[t |-> "StasisStart", c |-> c, x |-> x] :
        c \in {"f", "g"}, x \in Extras}
    \cup {[t |-> "StasisStart", c |-> "h", x |-> "x"],
          [t |-> "Dial", c |-> "f", x |-> "x"]}

\* The registry alone: on_event and EventUnsubscriber.close(), in sequence.
NextRegistry ==
    \/ \E i \in RegInputs : OnEvent(i.t, i.c, i.x)
    \/ \E h \in handles : Unsubscribe(h)

SpecRegistry == Init /\ [][NextRegistry]_vars

\* on_event calls of the dispatch runs.
DispatchRegs ==
    {[t |-> "StasisStart", c |-> "f", x |-> "x"],
     [t |-> "StasisStart", c |-> "g", x |-> "y"]}

\* Frames of the dispatch runs: the malformed ones and one event record of
\* each type.
DispatchFrames ==
    MalformedFrames \cup
    {f \in EventFrames : \A fld \in DOMAIN f.fields : f.fields[fld] = "raw"}

\* The steps of run() on connection w, receiving frames of the set fs.
RunSteps(w, fs) ==
    \/ RunStart(w)
    \/ \E f \in fs : RecvFrame(w, f)
    \/ RecvEOS(w)
    \/ LoopNext(w)
    \/ \E o \in Outcomes : InvokeReturn(w, o)
    \/ Finally(w)

\* One connection drained by run(), with registrations and unsubscriptions
\* made while it runs (from listeners or from other tasks).
NextDispatch ==
    \/ \E i \in DispatchRegs :
          Cardinality(handles) < MaxDispatchRegs /\ OnEvent(i.t, i.c, i.x)
    \/ \E h \in handles : Unsubscribe(h)
    \/ RunSteps("ws1", DispatchFrames)

SpecDispatch == InitWith(PublishedModels) /\ [][NextDispatch]_vars

\* on_object_event calls of the extraction runs: two that register, one
\* for a model without a field of the type, one for a type without model.
ObjInputs ==
    {[t |-> "StasisStart", c |-> "f", m |-> "Channel", x |-> "x"],
     [t |-> "Dial", c |-> "f", m |-> "Channel", x |-> "x"],
     [t |-> "StasisStart", c |-> "f", m |-> "Bridge", x |-> "x"],
     [t |-> UnknownType, c |-> "f", m |-> "Channel", x |-> "x"]}

\* One connection drained by run(), with listeners registered through
\* on_object_event.
NextObjects ==
    \/ \E i \in ObjInputs :
          /\ Cardinality(handles) < MaxObjectRegs
          /\ OnObjectEvent(i.t, i.c, i.m, i.x)
    \/ \E h \in handles : Unsubscribe(h)
    \/ RunSteps("ws1", EventFrames)

SpecObjects == Init /\ [][NextObjects]_vars

\* Frames of the runs with several connections: one that json.loads
\* rejects, one that is discarded, one event record.
ConnFrames ==
    {f \in DispatchFrames : f.kind \in {"nonjson", "array"}
                              \/ f.type = "StasisStart"}

\* Several connections, each drained by its own run() in its own task, and
\* Client.close() called from another task.
NextConns ==
    \/ /\ Cardinality(handles) < MaxConnRegs
       /\ OnEvent("StasisStart", "f", "x")
    \/ \E w \in Conns : RunSteps(w, ConnFrames)
    \/ CloseStart
    \/ CloseNext

SpecConns == Init /\ [][NextConns]_vars

\* The scheduling the runs rest on: every task that can take a step of
\* run() or of close() eventually takes it, and a connection on which
\* send_close() was called eventually has its recv() return None.  Frames,
\* the server ending a stream, and the application's calls are not forced.
ConnsFairness ==
    /\ \A w \in Conns :
          /\ WF_vars(LoopNext(w))
          /\ WF_vars(\E o \in Outcomes : InvokeReturn(w, o))
          /\ WF_vars(Finally(w))
          /\ WF_vars(closeReq[w] /\ RecvEOS(w))
    /\ WF_vars(CloseNext)

SpecConnsFair == SpecConns /\ ConnsFairness

\* on_event calls of the runs with concurrent registry calls.
RaceRegs ==
    {[t |-> "StasisStart", c |-> "f", x |-> "x"],
     [t |-> "StasisStart", c |-> "g", x |-> "y"]}

\* Some registrations made first, by calls that nothing interrupts; then
\* each task makes one registry call (an on_event or the close() of a handle
\* returned so far), the statements of the calls interleaved in any order.
NextRace ==
    \/ \E i \in RaceRegs :
          /\ \A k \in Tasks : tasks[k].pc = "idle"
          /\ Cardinality(handles) < MaxRaceRegs
          /\ OnEvent(i.t, i.c, i.x)
    \/ \E k \in Tasks, i \in RaceRegs : TaskOnEvent(k, i.t, i.c, i.x)
    \/ \E k \in Tasks, h \in handles : TaskClose(k, h)
    \/ \E k \in Tasks : TaskForNext(k)
    \/ \E k \in Tasks : TaskRemove(k)
    \/ \E k \in Tasks : TaskAppend(k)
    \/ \E k \in Tasks : TaskCloseRemove(k)

SpecRace == InitWith(PublishedModels) /\ [][NextRace]_vars

\* on_event calls of the runs with two event types.
LocalRegs ==
    {[t |-> "StasisStart", c |-> "f", x |-> "x"],
     [t |-> "Dial", c |-> "f", x |-> "x"],
     [t |-> "Dial", c |-> "g", x |-> "y"]}

\* Registrations and unsubscriptions for two event types, while connections
\* are opened by run() and end when their stream ends.
NextLocal ==
    \/ \E i \in LocalRegs :
          Cardinality(handles) < MaxLocalRegs /\ OnEvent(i.t, i.c, i.x)
    \/ \E h \in handles : Unsubscribe(h)
    \/ \E w \in Conns : RunStart(w)
    \/ \E w \in Conns : RecvEOS(w)
    \/ \E w \in Conns : Finally(w)

SpecLocal == InitWith(PublishedModels) /\ [][NextLocal]_vars

\* ------------------------------------------------------------------ claims
\* The list registered for type t, empty if there is none.
ListOf(reg, t) == Get(reg, t, <<>>)

\* The tuple object obj itself (not one equal to it) is in list l.
HoldsObject(l, obj) == \E i \in 1..Len(l) : l[i] = obj

\* Number of entries of l whose callback is cb.
CountCb(l, cb) == Cardinality({i \in 1..Len(l) : CbEq(l[i].cb, cb)})

\* l without the entries whose callback is cb, in order.
RECURSIVE WithoutCb(_, _)
WithoutCb(l, cb) ==
    IF l = <<>> THEN <<>>
    ELSE IF CbEq(Head(l).cb, cb) THEN WithoutCb(Tail(l), cb)
    ELSE <<Head(l)>> \o WithoutCb(Tail(l), cb)

\* C1: close() on a handle whose own entry is no longer in the list (removed
\* by an earlier close() or replaced by a later on_event of the same
\* callback) leaves the registry unchanged, also when the list holds another
\* entry equal to the handle's.
C1_CloseRemovesOnlyOwnEntry ==
    (last.op = "close" /\ ~HoldsObject(ListOf(last.pre, last.type), last.h.obj))
        => event_listeners = last.pre

\* C2: every list holds at most one entry per callback; after
\* on_event(T, c, ...) the entry of c is the new tuple, it is the last of
\* T's list and carries the extra arguments of this call, and the other
\* entries are those of the list before, in the same order.
C2_OneEntryPerCallbackLast ==
    /\ \A t \in DOMAIN event_listeners :
          \A i, j \in 1..Len(event_listeners[t]) :
             CbEq(event_listeners[t][i].cb, event_listeners[t][j].cb) => i = j
    /\ last.op = "on_event" =>
          LET l == ListOf(event_listeners, last.type)
              new == last.h.obj
          IN  /\ Len(l) >= 1
              /\ l[Len(l)] = new
              /\ CountCb(l, new.cb) = 1
              /\ SubSeq(l, 1, Len(l) - 1)
                     = WithoutCb(ListOf(last.pre, last.type), new.cb)
              /\ \A t \in DOMAIN last.pre :
                     t # last.type => event_listeners[t] = last.pre[t]

\* C2, its case: the callback was the first of three registered for the
\* type, with other extra arguments, and on_event moved it to the end.
C2_Witness ==
    /\ last.op = "on_event"
    /\ Len(ListOf(last.pre, last.type)) = 3
    /\ CbEq(last.pre[last.type][1].cb, last.h.obj.cb)
    /\ last.pre[last.type][1].extra # last.h.obj.extra
    /\ Len(event_listeners[last.type]) = 3

\* C5, as stated: on_event(T, c, ...) followed at once by close() of the
\* handle it returned leaves T's list as long as it was before the on_event.
C5_RoundTripKeepsCount ==
    (last.op = "close" /\ last.rt)
        => Len(ListOf(event_listeners, last.type)) = last.n0

\* C5, amended: the round trip leaves T's list as long as it was when the
\* callback was not registered for T before, and one entry shorter when it
\* was (the entry that on_event replaced is not brought back).
C5_RoundTripAmended ==
    (last.op = "close" /\ last.rt)
        => Len(ListOf(event_listeners, last.type))
              = last.n0 - (IF last.dup THEN 1 ELSE 0)

\* C5, its case: a round trip on a callback that was already registered.
C5_Witness ==
    /\ last.op = "close"
    /\ last.rt
    /\ last.dup
    /\ last.n0 = 2
    /\ Len(ListOf(event_listeners, last.type)) = 1

\* Number of times k occurs in sequence q.
Count(q, k) == Cardinality({i \in 1..Len(q) : q[i] = k})

\* The dispatch of the current frame of w is over: the for loop was left.
DispatchOver(w) == pc[w] \notin {"loop", "incall"}

\* What C3 says of listener k of the current frame of connection w.
C3_Isolated(w, k) ==
    /\ exc[w] = "none"
    /\ DispatchOver(w) =>
          \A j \in (k + 1)..Len(listeners[w]) :
             j <= Len(invoked[w]) /\ invoked[w][j] = listeners[w][j]
    /\ pc[w] \in {"finally", "returned", "raised"} => msg[w].kind = "eos"

C4_MalformedDiscarded ==
    \A w \in Conns :
        msg[w].kind \in MalformedKinds =>
            /\ pc[w] = "recv"
            /\ exc[w] = "none"
            /\ invoked[w] = <<>>

C7_CleanupOnce ==
    \A w \in Conns :
        /\ closeCount[w] <= 1
        /\ pc[w] \in {"returned", "raised"} =>
              closeCount[w] = 1 /\ w \notin websockets
        /\ pc[w] \notin {"returned", "raised"} => closeCount[w] = 0

\* C7, its case: one run() left by an exception, the other by the close
\* request of Client.close(); both cleaned up.
C7_Witness ==
    /\ pc["ws1"] = "raised"
    /\ exc["ws1"] # "none"
    /\ pc["ws2"] = "returned"
    /\ closeReq["ws2"]
    /\ closeCount = [w \in Conns |-> 1]
    /\ websockets = {}

\* C8: once Client.close() is called while the loop of a connection of the
\* active set is blocked in recv(), that connection eventually leaves the
\* active set.
C8_CloseEndsBlockedLoops ==
    \A w \in Conns :
        (closePc = "iter" /\ closeIter.seen = {} /\ w \in closeIter.start
            /\ pc[w] = "recv")
        ~> (w \notin websockets)

\* C9: on_object_event raises, returns no handle and leaves the registry as
\* it was when the event type has no model or the model no field of the
\* type, and only then; so every extractor in the registry has fields to
\* extract, and no such error leaves a dispatch.
C9_SchemaErrorsAtRegistration ==
    /\ last.op = "on_object_event" =>
          LET model == Get(event_models, last.type, EmptyMap)
              nofield == \A fld \in DOMAIN model : model[fld] # last.model
          IN  /\ model = EmptyMap => last.err = "UnknownEventModel"
              /\ (model # EmptyMap /\ nofield) => last.err = "NoFieldsOfType"
              /\ (model # EmptyMap /\ ~nofield) =>
                    /\ last.err = "none"
                    /\ last.h \in handles
                    /\ HoldsObject(ListOf(event_listeners, last.type),
                                   last.h.obj)
              /\ last.err # "none" =>
                    last.h = NoHandle /\ event_listeners = last.pre
    /\ \A h \in handles :
          h.obj.cb.kind = "extract" =>
             /\ h.type \in DOMAIN event_models
             /\ h.obj.cb.fields # {}
             /\ \A fld \in h.obj.cb.fields :
                   event_models[h.type][fld] = h.obj.cb.model
    /\ \A w \in Conns : exc[w] \notin {"UnknownEventModel", "NoFieldsOfType"}

\* C9, its case: with a listener registered, on_object_event was called for
\* a model that has no field of the type.
C9_Witness ==
    /\ last.op = "on_object_event"
    /\ last.err = "NoFieldsOfType"
    /\ last.h = NoHandle
    /\ Len(ListOf(event_listeners, "StasisStart")) = 1
    /\ event_listeners = last.pre

\* The listeners invoked so far for the current frame are the copy taken
\* when the frame was received, up to the position of the loop.
C10_InvokedIsSnapshot ==
    \A w \in Conns :
        /\ Len(invoked[w]) <= Len(listeners[w])
        /\ \A j \in 1..Len(invoked[w]) : invoked[w][j] = listeners[w][j]
        /\ pc[w] = "incall" => Len(invoked[w]) = idx[w]
        /\ pc[w] = "loop" => Len(invoked[w]) = idx[w] - 1
        /\ (pc[w] = "recv" /\ msg[w].kind = "event") =>
              invoked[w] = listeners[w]

\* C10: the listeners invoked for an event are exactly the copy of the
\* type's list taken when the event was received, whatever is registered or
\* closed while they run; and the copy of every event is the type's list as
\* it is when that event is received, so a change holds from the next event.
C10_DispatchOnSnapshot ==
    /\ []C10_InvokedIsSnapshot
    /\ [][\A w \in Conns :
            (pc[w] = "recv" /\ pc'[w] = "loop") =>
                listeners'[w] = ListOf(event_listeners, msg'[w].type)]_vars

\* C10, its case: the second listener of the copy is being invoked although
\* its entry was removed from the registry after the copy was taken, and an
\* entry registered since is not in the copy.
C10_Witness ==
    /\ pc["ws1"] = "incall"
    /\ Len(invoked["ws1"]) = 2
    /\ ~HoldsObject(ListOf(event_listeners, msg["ws1"].type), invoked["ws1"][2])
    /\ \E i \in 1..Len(ListOf(event_listeners, msg["ws1"].type)) :
          ~HoldsObject(listeners["ws1"], event_listeners[msg["ws1"].type][i])

\* Position of the tuple object obj in list l.
Pos(l, obj) == CHOOSE i \in 1..Len(l) : l[i] = obj

\* List l2 holds the entries of l that it kept in the order they have in l,
\* and an entry it holds that l did not is its last.
OrderKept(l, l2) ==
    /\ \A i, j \in 1..Len(l2) :
          (i < j /\ HoldsObject(l, l2[i]) /\ HoldsObject(l, l2[j]))
              => Pos(l, l2[i]) < Pos(l, l2[j])
    /\ \A i \in 1..Len(l2) : ~HoldsObject(l, l2[i]) => i = Len(l2)

\* What C11 says of the dispatch of the current frame of connection w.
C11_InOrderWithArgs(w) ==
    /\ Len(invoked[w]) <= Len(listeners[w])
    /\ \A j \in 1..Len(invoked[w]) : invoked[w][j] = listeners[w][j]
    /\ \A i, j \in 1..Len(listeners[w]) :
          listeners[w][i] = listeners[w][j] => i = j
    /\ msg[w].kind = "event" =>
          \A j \in 1..Len(listeners[w]) :
             [type |-> msg[w].type, obj |-> listeners[w][j]] \in handles
    /\ pc[w] = "incall" =>
          /\ Len(invoked[w]) = idx[w]
          /\ call[w].user = invoked[w][idx[w]].cb.user
          /\ call[w].event = msg[w]
          /\ call[w].extra = invoked[w][idx[w]].extra
    /\ (pc[w] = "recv" /\ msg[w].kind = "event") => invoked[w] = listeners[w]

Quiescent == \A k \in Tasks : tasks[k].pc \in {"idle", "done", "raised"}

\* Task k made an on_event whose entry no call of another task could have
\* removed in any serial order: no other task registered the same callback
\* for the type or closed a handle of an entry equal to it.
Undisturbed(k) ==
    /\ tasks[k].op = "on_event"
    /\ tasks[k].pc = "done"
    /\ \A j \in Tasks \ {k} :
          \/ tasks[j].op = "none"
          \/ tasks[j].type # tasks[k].type
          \/ tasks[j].op = "on_event" /\ ~CbEq(tasks[j].cb, tasks[k].cb)
          \/ tasks[j].op = "close" /\ ~EntryEq(tasks[j].h.obj, tasks[k].h.obj)

\* C12: registry calls interleaved from several tasks end as a serial order
\* of the same calls would: no call raises because another task changed the
\* list between its test and its update; once no call is in progress every
\* list holds at most one entry per callback, and the entry of a
\* registration that no other call could remove is in its list.
C12_RegistryCallsSerialized ==
    /\ \A k \in Tasks : tasks[k].err = "none"
    /\ Quiescent =>
          /\ \A t \in DOMAIN event_listeners :
                \A i, j \in 1..Len(event_listeners[t]) :
                   CbEq(event_listeners[t][i].cb, event_listeners[t][j].cb)
                      => i = j
          /\ \A k \in Tasks :
                Undisturbed(k) =>
                   HoldsObject(event_listeners[tasks[k].type], tasks[k].h.obj)

\* C13: when Client.close() has ended, send_close() was called on every
\* connection that was in the active set when close() was called and is
\* still in it, also when other loops ended and left the set while close()
\* went through it (no run() having begun since).
C13_CloseReachesEveryConnection ==
    (closePc \in {"done", "raised"}
        /\ \A w \in Conns \ closeIter.start : pc[w] = "idle") =>
        \A w \in closeIter.start \cap websockets : closeReq[w]

\* C14: when Client.close() has returned, no listener is registered for any
\* event type.
C14_CloseReleasesRegistry ==
    closePc = "done" =>
        \A t \in DOMAIN event_listeners : event_listeners[t] = <<>>

\* Listener calls of the current frame of w that have ended: those after
\* which the loop went on, and the one whose exception left the loop.
Returned(w) ==
    idx[w] - 1 + (IF exc[w] \in {"HandlerError", "BaseException"} THEN 1 ELSE 0)

\* Listener calls of the current frame of w begun and not ended.
InProgress(w) == Len(invoked[w]) - Returned(w)

\* C15: on one connection at most one listener call is in progress at any
\* time, a listener is called only after the call before it has ended, and
\* a frame is received only when every call made for the frame before it
\* has ended (returned, or raised with its exception handled).
C15_OneAtATime ==
    /\ [](\A w \in Conns :
            /\ InProgress(w) \in {0, 1}
            /\ InProgress(w) = 1 <=> pc[w] = "incall"
            /\ call[w] # NoCall <=> pc[w] = "incall")
    /\ [][\A w \in Conns :
            /\ Len(invoked'[w]) > Len(invoked[w]) => InProgress(w) = 0
            /\ (frames' # frames /\ (pc'[w] # pc[w] \/ msg'[w] # msg[w])) =>
                  /\ pc[w] = "recv"
                  /\ InProgress(w) = 0
                  /\ call[w] = NoCall]_vars

\* C15, its case: the second frame is being dispatched; its first listener
\* has returned and its second is running.
C15_Witness ==
    /\ frames = 2
    /\ pc["ws1"] = "incall"
    /\ Len(invoked["ws1"]) = 2
    /\ Returned("ws1") = 1
    /\ call["ws1"].user = "g"

\* C16: a well-formed event whose type has no listener when it is received
\* (no list for the type, or an empty one) is dispatched to an empty copy:
\* no listener and no exception handler is called, nothing is raised, the
\* registry is as it was (no list is created for the type) and the loop is
\* in recv again at its next step.
C16_NoListenerNoEffect ==
    /\ [](\A w \in Conns :
            (msg[w].kind = "event" /\ listeners[w] = <<>>) =>
                /\ pc[w] \in {"loop", "recv"}
                /\ invoked[w] = <<>>
                /\ raised[w] = <<>>
                /\ handled[w] = <<>>
                /\ call[w] = NoCall
                /\ exc[w] = "none")
    /\ [][\A w \in Conns :
            /\ (pc[w] = "recv" /\ pc'[w] = "loop"
                  /\ ListOf(event_listeners, msg'[w].type) = <<>>) =>
                  /\ listeners'[w] = <<>>
                  /\ event_listeners' = event_listeners
            /\ (pc[w] = "loop" /\ pc'[w] # "loop"
                  /\ msg[w].kind = "event" /\ listeners[w] = <<>>) =>
                  /\ pc'[w] = "recv"
                  /\ event_listeners' = event_listeners]_vars

\* C16, its case: the listeners of the event's type were all closed (the
\* type's list is there, empty), and the loop is back in recv after the
\* event, the second frame of the connection.
C16_Witness ==
    /\ pc["ws1"] = "recv"
    /\ msg["ws1"].kind = "event"
    /\ msg["ws1"].type \in DOMAIN event_listeners
    /\ event_listeners[msg["ws1"].type] = <<>>
    /\ listeners["ws1"] = <<>>
    /\ closed # {}
    /\ frames = 2

\* C17: close() on a handle on which close() was called before raises
\* nothing and leaves the registry as it was, whatever was registered or
\* closed in between.
C17_CloseIdempotent ==
    (last.op = "close" /\ last.again) =>
        /\ last.err = "none"
        /\ event_listeners = last.pre

\* l without the tuple object obj.
WithoutObject(l, obj) == SelectSeq(l, LAMBDA e : e # obj)

\* C18: an on_object_event call that registers adds its tuple at the end of
\* the type's list and removes none, also when the same user callback was
\* registered for the type before; the tuples of two such calls are never
\* equal; and close() of the handle of such a call removes the tuple of that
\* call and no other.
C18_ExtractorsNeverReplace ==
    /\ (last.op = "on_object_event" /\ last.err = "none") =>
          event_listeners[last.type]
              = Append(ListOf(last.pre, last.type), last.h.obj)
    /\ \A h1, h2 \in handles :
          (h1.obj.cb.kind = "extract" /\ h1.type = h2.type
              /\ EntryEq(h1.obj, h2.obj)) => h1 = h2
    /\ (last.op = "close" /\ last.h.obj.cb.kind = "extract") =>
          /\ event_listeners[last.type]
                = WithoutObject(last.pre[last.type], last.h.obj)
          /\ \A t \in DOMAIN last.pre :
                t # last.type => event_listeners[t] = last.pre[t]

\* C18, its case: the same user callback was registered twice for the type
\* through on_object_event, and an event of the type is calling it for the
\* second time.
C18_Witness ==
    /\ pc["ws1"] = "incall"
    /\ Len(invoked["ws1"]) = 2
    /\ invoked["ws1"][1].cb.kind = "extract"
    /\ invoked["ws1"][1].cb.user = "f"
    /\ invoked["ws1"][2].cb.user = "f"
    /\ invoked["ws1"][2].cb.uid # invoked["ws1"][1].cb.uid
    /\ call["ws1"].user = "f"
    /\ call["ws1"].obj.kind = "object"

\* C19: when the exception handler raises while it handles the exception of
\* listener k, that exception leaves __run: listener k is the last one
\* invoked for the frame, no frame is received after it, run() ends by
\* raising, and when it has ended the connection was closed once and is not
\* in the active set.
C19_HandlerFailureEndsRun ==
    \A w \in Conns :
        exc[w] = "HandlerError" =>
            /\ pc[w] \in {"finally", "raised"}
            /\ msg[w].kind = "event"
            /\ Len(invoked[w]) = idx[w]
            /\ raised[w] # <<>>
            /\ raised[w][Len(raised[w])] = idx[w]
            /\ handled[w][Len(handled[w])] = idx[w]
            /\ pc[w] = "finally" => closeCount[w] = 0 /\ w \in websockets
            /\ pc[w] = "raised" => closeCount[w] = 1 /\ w \notin websockets

\* C19, its case: the exception handler raised on the first of two
\* listeners; the second was not invoked and run() has raised, its
\* connection closed and out of the active set.
C19_Witness ==
    /\ pc["ws1"] = "raised"
    /\ exc["ws1"] = "HandlerError"
    /\ Len(listeners["ws1"]) = 2
    /\ Len(invoked["ws1"]) = 1
    /\ handled["ws1"] = <<1>>
    /\ closeCount["ws1"] = 1
    /\ "ws1" \notin websockets

\* C20: on_event(T, ...) and close() of a handle obtained for T leave the
\* list of every other event type as it was, create and delete no list of
\* another type, and change neither the active set nor the position of any
\* run().
C20_RegistryCallsLocal ==
    /\ [](last.op \in {"on_event", "close"} =>
            /\ DOMAIN event_listeners \ {last.type}
                  = DOMAIN last.pre \ {last.type}
            /\ \A t \in DOMAIN last.pre \ {last.type} :
                  event_listeners[t] = last.pre[t])
    /\ [][(last' # last \/ event_listeners' # event_listeners
              \/ handles' # handles) =>
             /\ websockets' = websockets
             /\ pc' = pc
             /\ closeReq' = closeReq
             /\ closeCount' = closeCount]_vars

\* C20, its case: with two connections active and a listener registered for
\* StasisStart, the first of two Dial listeners was closed.
C20_Witness ==
    /\ last.op = "close"
    /\ last.type = "Dial"
    /\ Len(last.pre["Dial"]) = 2
    /\ Len(event_listeners["Dial"]) = 1
    /\ last.pre["Dial"][1] = last.h.obj
    /\ Len(ListOf(event_listeners, "StasisStart")) = 1
    /\ websockets = Conns

====
